---- MODULE Spec2Model ----
(***************************************************************************)
(* Clipboard Copy Tool (src/script.js): readTextFromTarget, copyText with  *)
(* its Clipboard-API / execCommand fallback, the per-button and copy-all   *)
(* click handlers and the "Copied!" revert timers, run by a browser event  *)
(* loop (tasks: clicks, key presses, timers, promise settlement;           *)
(* microtasks: the continuation of a handler awaiting copyText).           *)
(*                                                                         *)
(* A JavaScript string is a sequence of one-character strings.  A          *)
(* JavaScript value that may also be undefined or null is a record         *)
(* [kind, str].                                                            *)
(***************************************************************************)
EXTENDS Integers, Sequences, FiniteSets, TLC

VARIABLES
    navClipboard,   \* navigator.clipboard.writeText is a function
    fields,         \* the page's source fields: selector -> current text
    nextId,         \* number of copyText calls started so far
    pending,        \* copyText calls suspended at `await writeText(text)`
    returned,       \* FIFO of copyText calls that returned, caller not yet
                    \* resumed: [caller, res], with the history of the call
    body,           \* temporary textareas currently children of document.body
    clipboard,      \* content of the system clipboard
    status,         \* statusEl: [text, color]
    label,          \* textContent of each .copy-btn
    copied,         \* each .copy-btn carries the class 'copied'
    allLabel,       \* textContent of #copyAll
    timers,         \* FIFO of pending setTimeout callbacks
    readArg,        \* argument of a readTextFromTarget call
    readRes,        \* its result
    combineSrc,     \* the four sources read by the copy-all handler
    combinePassed,  \* what that handler passed to copyText
    twice           \* a script calling copyText twice with one string under
                    \* one platform behaviour, and the outcomes it got

mainVars == <<navClipboard, fields, nextId, pending, returned, body, clipboard,
              status, label, copied, allLabel, timers>>
readVars == <<readArg, readRes>>
combineVars == <<combineSrc, combinePassed>>
pureVars == <<readVars, combineVars, twice>>
vars == <<mainVars, pureVars>>

----------------------------------------------------------------------------
(* JavaScript values *)

Undefined == [kind |-> "undefined", str |-> <<>>]
Null == [kind |-> "null", str |-> <<>>]
Str(s) == [kind |-> "string", str |-> s]

\* ToBoolean of undefined, null or a string
Truthy(v) == v.kind = "string" /\ v.str # <<>>

\* a || b
Or(a, b) == IF Truthy(a) THEN a ELSE b

----------------------------------------------------------------------------
(* readTextFromTarget *)

NoElement == [tagName |-> "none", value |-> Undefined,
              textContent |-> Undefined, innerText |-> Undefined]

\* document.querySelector: a SyntaxError for a string that is no selector,
\* else the matching element or null
QuerySelector(dom, sel) ==
    IF ~sel.valid THEN [threw |-> TRUE, el |-> NoElement]
    ELSE IF sel.name \in DOMAIN dom THEN [threw |-> FALSE, el |-> dom[sel.name]]
    ELSE [threw |-> FALSE, el |-> NoElement]

\* el.tagName === 'INPUT' || el.tagName === 'TEXTAREA'
IsInputLike(el) == el.tagName = "INPUT" \/ el.tagName = "TEXTAREA"

\* el.textContent || el.innerText || ''
RenderedText(el) == Or(Or(el.textContent, el.innerText), Str(<<>>))

\* arg is [kind |-> "selector", sel |-> ..], [kind |-> "element", el |-> ..]
\* or [kind |-> "null"]
readTextFromTarget(dom, arg) ==
    LET q == IF arg.kind = "selector" THEN QuerySelector(dom, arg.sel)
             ELSE IF arg.kind = "element" THEN [threw |-> FALSE, el |-> arg.el]
             ELSE [threw |-> FALSE, el |-> NoElement]
    IN  IF q.threw THEN [threw |-> TRUE, val |-> Undefined]
        ELSE IF q.el = NoElement THEN [threw |-> FALSE, val |-> Str(<<>>)]
        ELSE IF IsInputLike(q.el) THEN [threw |-> FALSE, val |-> q.el.value]
        ELSE [threw |-> FALSE, val |-> RenderedText(q.el)]

----------------------------------------------------------------------------
(* the copy-all handler's request string *)

CodePrefix == <<"C", "o", "d", "e", ":", "\n">>
Separator_Single == <<"\n">>
Separator == <<"\n", "\n">>

\* Array.prototype.join
RECURSIVE Join(_, _)
Join(parts, sep) ==
    IF parts = <<>> THEN <<>>
    ELSE IF Len(parts) = 1 THEN parts[1]
    ELSE parts[1] \o sep \o Join(Tail(parts), sep)

\* parts after the four conditional pushes
CopyAllParts(shortText, email, message, code) ==
    (IF Truthy(shortText) THEN <<shortText.str>> ELSE <<>>)
    \o (IF Truthy(email) THEN <<email.str>> ELSE <<>>)
    \o (IF Truthy(message) THEN <<message.str>> ELSE <<>>)
    \o (IF Truthy(code) THEN <<CodePrefix \o code.str>> ELSE <<>>)

\* const combined = parts.join('\n\n')
Combined(shortText, email, message, code) ==
    Str(Join(CopyAllParts(shortText, email, message, code), Separator))

----------------------------------------------------------------------------
(* copyText *)

MaxCalls == 2   \* copyText calls started in one behaviour

Success == [ok |-> TRUE]
Failure(m) == [ok |-> FALSE, message |-> m]

\* what a throw statement can deliver: a falsy value, an object whose
\* message is missing or empty, an Error with a message
ThrownFalsy == [obj |-> FALSE, message |-> ""]
Errs == {ThrownFalsy,
         [obj |-> TRUE, message |-> ""],
         [obj |-> TRUE, message |-> "fallback error"]}
PrimaryErr == [obj |-> TRUE, message |-> "primary error"]

\* if (!text && text !== '')
NothingToCopy_RejectsEmpty(text) == ~Truthy(text)
NothingToCopy(text) == ~Truthy(text) /\ text # Str(<<>>)

\* try { await writeText(text); return { ok: true } } catch (err) { warn }
AfterPrimary_FallsThrough(settle, err) == [done |-> FALSE, res |-> Success]
AfterPrimary_SurfacesError(settle, err) ==
    IF settle = "resolved" THEN [done |-> TRUE, res |-> Success]
    ELSE [done |-> TRUE, res |-> Failure(err.message)]
AfterPrimary(settle, err) ==
    IF settle = "resolved" THEN [done |-> TRUE, res |-> Success]
    ELSE [done |-> FALSE, res |-> Success]

\* err && err.message ? err.message : 'Copy failed'
ErrMessage_Raw(err) == err.message
ErrMessage_Generic(err) == "Copy failed"
ErrMessage(err) ==
    IF err.obj /\ err.message # "" THEN err.message ELSE "Copy failed"

\* if (successful) return { ok: true }; return { ok: false, message: ... }
ExecOutcome_IgnoresResult(successful) == Success
ExecOutcome(successful) ==
    IF successful THEN Success ELSE Failure("Copy command unsuccessful")

\* the statements of the fallback's try block that call into the platform
FallbackSteps == <<"createElement", "appendChild", "focus", "select",
                   "execCommand", "removeChild">>
StepIndex(s) == CHOOSE i \in 1..Len(FallbackSteps) : FallbackSteps[i] = s
NoThrow == Len(FallbackSteps) + 1
ThrowIndex(e) == IF e.throwAt = "none" THEN NoThrow ELSE StepIndex(e.throwAt)

\* what the platform does during one fallback: the step that throws (if
\* any), the value thrown, and execCommand's return value
FallbackEnvs ==
    {[throwAt |-> "none", err |-> ThrownFalsy, exec |-> x] : x \in BOOLEAN}
    \cup {[throwAt |-> FallbackSteps[i], err |-> r, exec |-> FALSE] :
            i \in 1..StepIndex("execCommand"), r \in Errs}
    \cup {[throwAt |-> "removeChild", err |-> r, exec |-> x] :
            r \in Errs, x \in BOOLEAN}
NoFallback == [throwAt |-> "notrun", err |-> ThrownFalsy, exec |-> FALSE]

\* the fallback try/catch, run to completion for textarea `ta` on document
\* body `doc` and clipboard `clip` under platform behaviour e
Fallback_StaleClipboard(text, ta, doc, clip, e) ==
    LET t == ThrowIndex(e)
        inserted == t > StepIndex("appendChild")
        execCalled == t >= StepIndex("execCommand")
        execReturned == t > StepIndex("execCommand")
        removed == t > StepIndex("removeChild")
        fresh == clip # text.str
    IN  [body |-> IF inserted /\ ~removed THEN doc \cup {ta} ELSE doc,
         clipboard |-> IF execReturned /\ e.exec THEN text.str ELSE clip,
         res |-> IF t = NoThrow THEN ExecOutcome(e.exec /\ fresh)
                 ELSE Failure(ErrMessage(e.err)),
         inserted |-> inserted,
         execCalled |-> execCalled]
\* a wrong reading of the try block: the textarea is removed only on the way
\* to `return { ok: true }`
Fallback_KeepsElementOnFalse(text, ta, doc, clip, e) ==
    LET t == ThrowIndex(e)
        inserted == t > StepIndex("appendChild")
        execCalled == t >= StepIndex("execCommand")
        execReturned == t > StepIndex("execCommand")
        removed == t > StepIndex("removeChild") /\ e.exec
    IN  [body |-> IF inserted /\ ~removed THEN doc \cup {ta} ELSE doc,
         clipboard |-> IF execReturned /\ e.exec THEN text.str ELSE clip,
         res |-> IF t = NoThrow THEN ExecOutcome(e.exec)
                 ELSE Failure(ErrMessage(e.err)),
         inserted |-> inserted,
         execCalled |-> execCalled]
Fallback(text, ta, doc, clip, e) ==
    LET t == ThrowIndex(e)
        inserted == t > StepIndex("appendChild")
        execCalled == t >= StepIndex("execCommand")
        execReturned == t > StepIndex("execCommand")
        removed == t > StepIndex("removeChild")
    IN  [body |-> IF inserted /\ ~removed THEN doc \cup {ta} ELSE doc,
         clipboard |-> IF execReturned /\ e.exec THEN text.str ELSE clip,
         res |-> IF t = NoThrow THEN ExecOutcome(e.exec)
                 ELSE Failure(ErrMessage(e.err)),
         inserted |-> inserted,
         execCalled |-> execCalled]

----------------------------------------------------------------------------
(* the page *)

Buttons == {"copyShort", "copyBare"}

\* btn.dataset.copyTarget of each .copy-btn: a selector, or no attribute
CopyTarget(b) ==
    IF b = "copyShort"
    THEN [kind |-> "string", sel |-> [valid |-> TRUE, name |-> "#shortText"]]
    ELSE [kind |-> "undefined", sel |-> [valid |-> TRUE, name |-> ""]]

OriginalLabel == "Copy"
OriginalAllLabel == "Copy All Fields"

FieldIds == {"#shortText", "#email", "#message", "#codeBlock"}
FieldTag(f) ==
    CASE f = "#shortText" -> "INPUT"
      [] f = "#email" -> "INPUT"
      [] f = "#message" -> "TEXTAREA"
      [] OTHER -> "PRE"

\* texts the user can put into each field
FieldTexts(f) ==
    CASE f = "#shortText" -> {<<>>, <<"s">>}
      [] f = "#email" -> {<<>>}
      [] f = "#message" -> {<<>>}
      [] OTHER -> {<<>>, <<"c">>}

\* the document as querySelector sees it
Dom(fs) ==
    [f \in FieldIds |->
        IF FieldTag(f) \in {"INPUT", "TEXTAREA"}
        THEN [tagName |-> FieldTag(f), value |-> Str(fs[f]),
              textContent |-> Str(<<>>), innerText |-> Str(<<>>)]
        ELSE [tagName |-> FieldTag(f), value |-> Undefined,
              textContent |-> Str(fs[f]), innerText |-> Str(fs[f])]]

ReadField(fs, name) ==
    readTextFromTarget(Dom(fs), [kind |-> "selector",
                                 sel |-> [valid |-> TRUE, name |-> name]])

\* showStatus(msg, success)
showStatus(msg, success) ==
    [text |-> msg, color |-> IF success THEN "" ELSE "#ffbaba"]

SupportNotice == <<"Clipboard API unavailable - using fallback copy method.">>

\* 'Copy failed: ' + (res.message || 'unknown error')
FailedStatus(res) ==
    showStatus(<<"Copy failed: ",
                 IF res.message # "" THEN res.message ELSE "unknown error">>,
               FALSE)

PureIdle ==
    /\ readArg = [kind |-> "null"]
    /\ readRes = [done |-> FALSE, threw |-> FALSE, val |-> Undefined]
    /\ combineSrc = <<Undefined, Undefined, Undefined, Undefined>>
    /\ combinePassed = [done |-> FALSE, called |-> FALSE, text |-> Undefined]
    /\ twice = [text |-> Undefined, how |-> "none", env |-> NoFallback,
                results |-> <<>>]

Init ==
    /\ navClipboard \in BOOLEAN
    /\ fields \in {fs \in [FieldIds -> UNION {FieldTexts(f) : f \in FieldIds}] :
                      \A f \in FieldIds : fs[f] \in FieldTexts(f)}
    /\ nextId = 0
    /\ pending = <<>>
    /\ returned = <<>>
    /\ body = {}
    /\ clipboard = <<>>
    \* checkSupport()
    /\ status = IF navClipboard THEN showStatus(<<"">>, TRUE)
                ELSE showStatus(SupportNotice, TRUE)
    /\ label = [b \in Buttons |-> OriginalLabel]
    /\ copied = [b \in Buttons |-> FALSE]
    /\ allLabel = OriginalAllLabel
    /\ timers = <<>>
    /\ PureIdle

uiVars == <<status, label, copied, allLabel, timers>>

\* the raw texts of the fields a caller's handler reads, as they are now
SourcesNow(caller) ==
    IF caller \in Buttons THEN <<fields[CopyTarget(caller).sel.name]>>
    ELSE IF caller = "all"
    THEN <<fields["#shortText"], fields["#email"], fields["#message"],
           fields["#codeBlock"]>>
    ELSE <<>>

\* a copyText call c = [id, caller, text, trace, at] returns: its promise
\* resolves and the awaiting caller's continuation is queued.  f is what
\* the call did on its way to the return; trace lists the stages the call
\* went through, at the sources as they were when the caller read them.
Return(c, primary, e, f) ==
    /\ returned' = Append(returned,
            [id |-> c.id, caller |-> c.caller, res |-> f.res, text |-> c.text,
             primary |-> primary, env |-> e, inserted |-> f.inserted,
             execCalled |-> f.execCalled, docChanged |-> f.body # body,
             clipChanged |-> f.clipboard # clipboard,
             trace |-> Append(c.trace, IF f.res.ok THEN "Success" ELSE "Failure"),
             at |-> c.at])
    /\ body' = f.body
    /\ clipboard' = f.clipboard

Untouched(res) ==
    [body |-> body, clipboard |-> clipboard, res |-> res,
     inserted |-> FALSE, execCalled |-> FALSE]

\* the rest of copyText once the primary path is absent or has failed
\* (primary says which), under one of the platform behaviours E
RunFallbackWith(E, c, primary, clip) ==
    \E e \in E :
        Return([c EXCEPT !.trace = Append(@, "FallbackAttempt")], primary, e,
               Fallback(c.text, c.id, body, clip, e))

RunFallback(c, primary, clip) == RunFallbackWith(FallbackEnvs, c, primary, clip)

\* copyText(text) up to its first suspension or its return; the call of
\* writeText does one of W (returns a promise, throws)
CopyTextCallWith(W, E, caller, text) ==
    LET c == [id |-> nextId + 1, caller |-> caller, text |-> text,
              trace |-> <<"Start">>, at |-> SourcesNow(caller)]
        p == [c EXCEPT !.trace = Append(@, "PrimaryAttempt")]
    IN  /\ nextId < MaxCalls
        /\ nextId' = nextId + 1
        /\ IF NothingToCopy(text)
           THEN /\ Return(c, "skipped", NoFallback,
                          Untouched(Failure("Nothing to copy")))
                /\ UNCHANGED pending
           ELSE IF navClipboard
           THEN \/ /\ "promise" \in W
                   /\ pending' = Append(pending, p)
                   /\ UNCHANGED <<returned, body, clipboard>>
                \/ /\ "throws" \in W
                   /\ LET a == AfterPrimary("threw", PrimaryErr) IN
                        IF a.done
                        THEN Return(p, "threw", NoFallback, Untouched(a.res))
                        ELSE RunFallbackWith(E, p, "threw", clipboard)
                   /\ UNCHANGED pending
           ELSE /\ RunFallbackWith(E, c, "absent", clipboard)
                /\ UNCHANGED pending

CopyTextCall(caller, text) ==
    CopyTextCallWith({"promise", "throws"}, FallbackEnvs, caller, text)

\* a wrong reading of the await: the continuation runs and the call returns,
\* but its suspended frame is kept
PrimarySettleWith_StaysPending(E, i, how) ==
    LET c == pending[i]
        a == AfterPrimary(how, PrimaryErr)
        clip == IF how = "resolved" THEN c.text.str ELSE clipboard
    IN  /\ returned = <<>>
        /\ pending' = pending
        /\ IF a.done
           THEN Return(c, how, NoFallback,
                       [Untouched(a.res) EXCEPT !.clipboard = clip])
           ELSE RunFallbackWith(E, c, how, clip)
        /\ UNCHANGED <<navClipboard, fields, nextId, uiVars, pureVars>>

\* a wrong reading of the closure: the write takes the source's text at
\* the time the promise settles
PrimarySettleWith_RereadsSource(E, i, how) ==
    LET now == SourcesNow(pending[i].caller)
        c == IF pending[i].caller \in Buttons
             THEN [pending[i] EXCEPT !.text = Str(now[1])]
             ELSE pending[i]
        a == AfterPrimary(how, PrimaryErr)
        clip == IF how = "resolved" THEN c.text.str ELSE clipboard
    IN  /\ returned = <<>>
        /\ pending' = SubSeq(pending, 1, i - 1) \o SubSeq(pending, i + 1, Len(pending))
        /\ IF a.done
           THEN Return(c, how, NoFallback,
                       [Untouched(a.res) EXCEPT !.clipboard = clip])
           ELSE RunFallbackWith(E, c, how, clip)
        /\ UNCHANGED <<navClipboard, fields, nextId, uiVars, pureVars>>

\* the promise of the i-th suspended call's writeText settles (a task of
\* its own) and the call runs on to its return
PrimarySettleWith(E, i, how) ==
    LET c == pending[i]
        a == AfterPrimary(how, PrimaryErr)
        clip == IF how = "resolved" THEN c.text.str ELSE clipboard
    IN  /\ returned = <<>>
        /\ pending' = SubSeq(pending, 1, i - 1) \o SubSeq(pending, i + 1, Len(pending))
        /\ IF a.done
           THEN Return(c, how, NoFallback,
                       [Untouched(a.res) EXCEPT !.clipboard = clip])
           ELSE RunFallbackWith(E, c, how, clip)
        /\ UNCHANGED <<navClipboard, fields, nextId, uiVars, pureVars>>

PrimarySettle(i, how) == PrimarySettleWith(FallbackEnvs, i, how)

\* a wrong reading of the handler: no `if (!text)` before the call
ClickCopy_CopiesEmpty(b) ==
    LET target == CopyTarget(b)
        r == readTextFromTarget(Dom(fields), [kind |-> "selector", sel |-> target.sel])
    IN  /\ returned = <<>>
        /\ IF target.kind # "string" \/ target.sel.name = ""
           THEN /\ status' = showStatus(<<"No target found to copy.">>, FALSE)
                /\ UNCHANGED <<nextId, pending, returned, body, clipboard>>
           ELSE IF r.threw
           THEN UNCHANGED <<status, nextId, pending, returned, body, clipboard>>
           ELSE /\ CopyTextCall(b, r.val)
                /\ UNCHANGED status
        /\ UNCHANGED <<navClipboard, fields, label, copied, allLabel, timers, pureVars>>

\* click on a .copy-btn, up to `await copyText(text)`
ClickCopy(b) ==
    LET target == CopyTarget(b)
        r == readTextFromTarget(Dom(fields), [kind |-> "selector", sel |-> target.sel])
    IN  /\ returned = <<>>
        /\ IF target.kind # "string" \/ target.sel.name = ""
           THEN /\ status' = showStatus(<<"No target found to copy.">>, FALSE)
                /\ UNCHANGED <<nextId, pending, returned, body, clipboard>>
           ELSE IF r.threw
           THEN UNCHANGED <<status, nextId, pending, returned, body, clipboard>>
           ELSE IF ~Truthy(r.val)
           THEN /\ status' = showStatus(<<"Nothing to copy.">>, FALSE)
                /\ UNCHANGED <<nextId, pending, returned, body, clipboard>>
           ELSE /\ CopyTextCall(b, r.val)
                /\ UNCHANGED status
        /\ UNCHANGED <<navClipboard, fields, label, copied, allLabel, timers, pureVars>>

\* keydown on a focused .copy-btn: Enter or Space calls b.click()
KeydownCopy(b, key) ==
    /\ key = "Enter" \/ key = " "
    /\ ClickCopy(b)

\* click on #copyAll, up to `await copyText(combined)`
ClickCopyAll ==
    LET combined == Combined(ReadField(fields, "#shortText").val,
                             ReadField(fields, "#email").val,
                             ReadField(fields, "#message").val,
                             ReadField(fields, "#codeBlock").val)
    IN  /\ returned = <<>>
        /\ IF ~Truthy(combined)
           THEN /\ status' = showStatus(<<"Nothing to copy.">>, FALSE)
                /\ UNCHANGED <<nextId, pending, returned, body, clipboard>>
           ELSE /\ CopyTextCall("all", combined)
                /\ UNCHANGED status
        /\ UNCHANGED <<navClipboard, fields, label, copied, allLabel, timers, pureVars>>

\* copyText called by other script with any argument
DirectTexts == {Undefined, Null, Str(<<>>), Str(<<"d">>)}
DirectCall(text) ==
    /\ returned = <<>>
    /\ CopyTextCall("direct", text)
    /\ UNCHANGED <<navClipboard, fields, uiVars, pureVars>>

\* indicateButtonCopied(btn)
IndicateButtonCopied(b) ==
    /\ copied' = [copied EXCEPT ![b] = TRUE]
    /\ label' = [label EXCEPT ![b] = "Copied!"]
    /\ timers' = Append(timers, [kind |-> "btn", btn |-> b, original |-> label[b]])

\* the caller of the first returned copyText call resumes after its await
HandlerResume ==
    /\ returned # <<>>
    /\ LET r == Head(returned) IN
        /\ returned' = Tail(returned)
        /\ IF r.caller \in Buttons
           THEN IF r.res.ok
                THEN /\ IndicateButtonCopied(r.caller)
                     /\ status' = showStatus(<<"Copied to clipboard.">>, TRUE)
                     /\ UNCHANGED allLabel
                ELSE /\ status' = FailedStatus(r.res)
                     /\ UNCHANGED <<label, copied, allLabel, timers>>
           ELSE IF r.caller = "all"
           THEN IF r.res.ok
                THEN /\ status' = showStatus(<<"All fields copied to clipboard.">>, TRUE)
                     /\ allLabel' = "Copied!"
                     /\ timers' = Append(timers, [kind |-> "all", btn |-> "copyAll",
                                                  original |-> "Copy All Fields"])
                     /\ UNCHANGED <<label, copied>>
                ELSE /\ status' = FailedStatus(r.res)
                     /\ UNCHANGED <<label, copied, allLabel, timers>>
           ELSE UNCHANGED uiVars
    /\ UNCHANGED <<navClipboard, fields, nextId, pending, body, clipboard, pureVars>>

\* the oldest pending 1200 ms timer fires
TimerFire ==
    /\ returned = <<>>
    /\ timers # <<>>
    /\ LET t == Head(timers) IN
        /\ timers' = Tail(timers)
        /\ IF t.kind = "btn"
           THEN /\ copied' = [copied EXCEPT ![t.btn] = FALSE]
                /\ label' = [label EXCEPT ![t.btn] = t.original]
                /\ UNCHANGED allLabel
           ELSE /\ allLabel' = t.original
                /\ UNCHANGED <<label, copied>>
    /\ UNCHANGED <<navClipboard, fields, nextId, pending, returned, body,
                   clipboard, status, pureVars>>

\* the user edits a source field
EditField(f, v) ==
    /\ returned = <<>>
    /\ v # fields[f]
    /\ fields' = [fields EXCEPT ![f] = v]
    /\ UNCHANGED <<navClipboard, nextId, pending, returned, body, clipboard,
                   uiVars, pureVars>>

Next ==
    \/ \E b \in Buttons : ClickCopy(b)
    \/ \E b \in Buttons, key \in {"Enter", " "} : KeydownCopy(b, key)
    \/ ClickCopyAll
    \/ \E t \in DirectTexts : DirectCall(t)
    \/ \E i \in 1..Len(pending), how \in {"resolved", "rejected"} : PrimarySettle(i, how)
    \/ HandlerResume
    \/ TimerFire
    \/ \E f \in FieldIds : \E v \in FieldTexts(f) : EditField(f, v)

Spec == Init /\ [][Next]_vars

----------------------------------------------------------------------------
(* readTextFromTarget on its own *)

MainIdle ==
    /\ navClipboard = TRUE
    /\ fields = [f \in FieldIds |-> <<>>]
    /\ nextId = 0
    /\ pending = <<>>
    /\ returned = <<>>
    /\ body = {}
    /\ clipboard = <<>>
    /\ status = showStatus(<<"">>, TRUE)
    /\ label = [b \in Buttons |-> OriginalLabel]
    /\ copied = [b \in Buttons |-> FALSE]
    /\ allLabel = OriginalAllLabel
    /\ timers = <<>>

Hello == <<"h", "e", "l", "l", "o">>
World == <<"w", "o", "r", "l", "d">>

\* elements a caller can hand over or a selector can match
ReadElements ==
    {[tagName |-> t, value |-> Str(v), textContent |-> Str(c), innerText |-> i] :
        t \in {"INPUT", "TEXTAREA"}, v \in {<<>>, Hello},
        c \in {<<>>, World}, i \in {Undefined, Str(<<>>), Str(<<"\n">>), Str(World)}}
    \cup
    {[tagName |-> t, value |-> Undefined, textContent |-> Str(c), innerText |-> i] :
        t \in {"PRE", "CODE", "DIV"},
        c \in {<<>>, World}, i \in {Undefined, Str(<<>>), Str(<<"\n">>), Str(World)}}

ReadDom ==
    [n \in {"#shortText", "#codeBlock"} |->
        IF n = "#shortText"
        THEN [tagName |-> "INPUT", value |-> Str(Hello),
              textContent |-> Str(<<>>), innerText |-> Str(<<>>)]
        ELSE [tagName |-> "PRE", value |-> Undefined,
              textContent |-> Str(World), innerText |-> Str(World)]]

ReadArgs ==
    {[kind |-> "null"]}
    \cup {[kind |-> "element", el |-> el] : el \in ReadElements}
    \cup {[kind |-> "selector", sel |-> [valid |-> TRUE, name |-> n]] :
            n \in {"#shortText", "#codeBlock", "#missing"}}
    \cup {[kind |-> "selector", sel |-> [valid |-> FALSE, name |-> n]] :
            n \in {"", "##"}}

InitRead ==
    /\ MainIdle
    /\ readArg \in ReadArgs
    /\ readRes = [done |-> FALSE, threw |-> FALSE, val |-> Undefined]
    /\ combineSrc = <<Undefined, Undefined, Undefined, Undefined>>
    /\ combinePassed = [done |-> FALSE, called |-> FALSE, text |-> Undefined]
    /\ twice = [text |-> Undefined, how |-> "none", env |-> NoFallback,
                results |-> <<>>]

ReadCall ==
    /\ ~readRes.done
    /\ LET r == readTextFromTarget(ReadDom, readArg) IN
        readRes' = [done |-> TRUE, threw |-> r.threw, val |-> r.val]
    /\ UNCHANGED <<mainVars, readArg, combineVars, twice>>

NextRead == ReadCall

SpecRead == InitRead /\ [][NextRead]_vars

----------------------------------------------------------------------------
(* the copy-all handler's request on its own *)

SourceTexts == {<<>>, <<"a">>, <<"b", "\n">>}

InitCombine ==
    /\ MainIdle
    /\ readArg = [kind |-> "null"]
    /\ readRes = [done |-> FALSE, threw |-> FALSE, val |-> Undefined]
    /\ combineSrc \in {<<Str(a), Str(b), Str(c), Str(d)>> :
                          a \in SourceTexts, b \in SourceTexts,
                          c \in SourceTexts, d \in SourceTexts}
    /\ combinePassed = [done |-> FALSE, called |-> FALSE, text |-> Undefined]
    /\ twice = [text |-> Undefined, how |-> "none", env |-> NoFallback,
                results |-> <<>>]

\* the copy-all handler from the four reads to the call of copyText
CopyAllBuild ==
    /\ ~combinePassed.done
    /\ LET combined == Combined(combineSrc[1], combineSrc[2],
                                combineSrc[3], combineSrc[4]) IN
        combinePassed' = IF ~Truthy(combined)
                         THEN [done |-> TRUE, called |-> FALSE, text |-> Undefined]
                         ELSE [done |-> TRUE, called |-> TRUE, text |-> combined]
    /\ UNCHANGED <<mainVars, readVars, combineSrc, twice>>

NextCombine == CopyAllBuild

SpecCombine == InitCombine /\ [][NextCombine]_vars

----------------------------------------------------------------------------
(* copyText called twice with one string under one platform behaviour *)

TwiceBehaviours(nav) ==
    IF nav
    THEN {[how |-> "resolved", env |-> NoFallback]}
         \cup {[how |-> h, env |-> e] : h \in {"rejected", "threw"}, e \in FallbackEnvs}
    ELSE {[how |-> "absent", env |-> e] : e \in FallbackEnvs}

InitTwice ==
    /\ navClipboard \in BOOLEAN
    /\ fields = [f \in FieldIds |-> <<>>]
    /\ nextId = 0
    /\ pending = <<>>
    /\ returned = <<>>
    /\ body = {}
    /\ clipboard = <<>>
    /\ status = IF navClipboard THEN showStatus(<<"">>, TRUE)
                ELSE showStatus(SupportNotice, TRUE)
    /\ label = [b \in Buttons |-> OriginalLabel]
    /\ copied = [b \in Buttons |-> FALSE]
    /\ allLabel = OriginalAllLabel
    /\ timers = <<>>
    /\ readArg = [kind |-> "null"]
    /\ readRes = [done |-> FALSE, threw |-> FALSE, val |-> Undefined]
    /\ combineSrc = <<Undefined, Undefined, Undefined, Undefined>>
    /\ combinePassed = [done |-> FALSE, called |-> FALSE, text |-> Undefined]
    /\ twice \in {[text |-> t, how |-> b.how, env |-> b.env, results |-> <<>>] :
                    t \in {Str(<<>>), Str(<<"d">>)},
                    b \in TwiceBehaviours(navClipboard)}

\* the script calls copyText(twice.text)
TwiceCall ==
    /\ returned = <<>>
    /\ nextId < 2
    /\ CopyTextCallWith(IF twice.how = "threw" THEN {"throws"} ELSE {"promise"},
                        {twice.env}, "direct", twice.text)
    /\ UNCHANGED <<navClipboard, fields, uiVars, pureVars>>

\* the write of the i-th suspended call settles the way twice.how says
TwiceSettle(i) ==
    /\ twice.how \in {"resolved", "rejected"}
    /\ PrimarySettleWith({twice.env}, i, twice.how)

\* the script resumes after its await and keeps the outcome
TwiceResume ==
    /\ returned # <<>>
    /\ returned' = Tail(returned)
    /\ twice' = [twice EXCEPT !.results = Append(@, Head(returned).res)]
    /\ UNCHANGED <<navClipboard, fields, nextId, pending, body, clipboard,
                   uiVars, readVars, combineVars>>

NextTwice ==
    \/ TwiceCall
    \/ \E i \in 1..Len(pending) : TwiceSettle(i)
    \/ TwiceResume

SpecTwice == InitTwice /\ [][NextTwice]_vars

----------------------------------------------------------------------------
(* the page's own handlers, with every writeText promise settling in the end *)

Settle ==
    \E i \in 1..Len(pending), how \in {"resolved", "rejected"} : PrimarySettle(i, how)

NextSettles ==
    \/ \E b \in Buttons : ClickCopy(b)
    \/ \E b \in Buttons, key \in {"Enter", " "} : KeydownCopy(b, key)
    \/ ClickCopyAll
    \/ Settle
    \/ HandlerResume
    \/ TimerFire

\* WF(Settle): the premise that a started write resolves or rejects;
\* WF(HandlerResume): the microtask queue is drained after every task
SpecSettles ==
    Init /\ [][NextSettles]_vars /\ WF_vars(Settle) /\ WF_vars(HandlerResume)

----------------------------------------------------------------------------
(* properties *)

\* the copyText calls that have returned and whose caller has not resumed
Completed == {returned[i] : i \in 1..Len(returned)}

\* C1: whenever a copyText call has inserted its temporary textarea, that
\* textarea is no longer in the document when the call has completed, on
\* every path (legacy command true, false, or an exception after insertion).
C1_TempElementRemoved ==
    \A r \in Completed : r.inserted => r.id \notin body

\* C2: a call whose primary write resolved returns Success, never inserted
\* a temporary element, never invoked the legacy command and left the
\* document as it was.
C2_PrimarySuccessSkipsFallback ==
    \A r \in Completed :
        r.primary = "resolved" =>
            /\ r.res = Success
            /\ ~r.inserted
            /\ ~r.execCalled
            /\ ~r.docChanged
            /\ r.env.throwAt = "notrun"

C2_Witness ==
    \E r \in Completed : r.primary = "resolved" /\ r.res.ok /\ r.clipChanged

\* C3: when the primary capability is absent, or its write throws or
\* rejects, the fallback is attempted and alone decides the outcome: a
\* successful legacy command yields Success, and no Failure carries the
\* primary error.
C3_PrimaryFailureFallsBack ==
    \A r \in Completed :
        r.primary \in {"absent", "threw", "rejected"} =>
            /\ r.env.throwAt # "notrun"
            /\ (r.env.throwAt = "none" /\ r.env.exec) => r.res = Success
            /\ ~r.res.ok => r.res.message # PrimaryErr.message

C3_Witness ==
    \E r \in Completed :
        r.primary = "rejected" /\ r.env.throwAt = "none" /\ r.env.exec /\ r.res.ok

\* C4: a completed copyText call on a string (empty or not) ends in Success
\* or in Failure with a non-empty message, whatever the primary and the
\* fallback did.
C4_SuccessOrFailureWithMessage ==
    \A r \in Completed :
        r.text.kind = "string" =>
            \/ r.res = Success
            \/ /\ DOMAIN r.res = {"ok", "message"}
               /\ ~r.res.ok
               /\ r.res.message # ""

C4_Witness ==
    \E r \in Completed :
        /\ r.text = Str(<<>>)
        /\ r.env.throwAt = "execCommand"
        /\ r.env.err.message = ""
        /\ ~r.res.ok

\* C5: copyText with no text at all (undefined or null) fails at once with
\* "Nothing to copy", without primary write, fallback, DOM mutation or
\* clipboard change; with the empty string it passes this check and goes
\* on to the primary or the fallback attempt.
C5_AbsentInputFailsEmptyProceeds ==
    /\ \A r \in Completed :
        /\ r.text.kind # "string" =>
            /\ r.res = Failure("Nothing to copy")
            /\ r.primary = "skipped"
            /\ r.env.throwAt = "notrun"
            /\ ~r.inserted /\ ~r.execCalled
            /\ ~r.docChanged /\ ~r.clipChanged
        /\ r.text = Str(<<>>) =>
            /\ r.primary # "skipped"
            /\ r.primary = "resolved" \/ r.env.throwAt # "notrun"
    /\ \A i \in 1..Len(pending) : pending[i].text.kind = "string"

C5_Witness ==
    /\ \E r \in Completed : r.text = Undefined /\ r.res = Failure("Nothing to copy")
    /\ \E i \in 1..Len(pending) : pending[i].text = Str(<<>>)

\* C6: on the fallback path without exception the outcome is Success iff
\* the legacy command returned true, and exactly
\* Failure "Copy command unsuccessful" when it returned false.
C6_LegacyResultDecides ==
    \A r \in Completed :
        r.env.throwAt = "none" =>
            /\ r.res = Success <=> r.env.exec
            /\ ~r.env.exec => r.res = Failure("Copy command unsuccessful")

C6_Witness ==
    \E r \in Completed :
        r.env.throwAt = "none" /\ ~r.env.exec /\ ~r.res.ok

\* C7: on the fallback path, an exception at any step gives Failure with
\* the exception's message when it has a non-empty one, "Copy failed"
\* otherwise.
C7_ExceptionMessage ==
    \A r \in Completed :
        r.env.throwAt \in {FallbackSteps[i] : i \in 1..Len(FallbackSteps)} =>
            /\ ~r.res.ok
            /\ r.env.err.message # "" => r.res.message = r.env.err.message
            /\ r.env.err.message = "" => r.res.message = "Copy failed"

C7_Witness ==
    \E r \in Completed :
        /\ r.env.throwAt = "removeChild"
        /\ r.env.err.message = "fallback error"
        /\ r.res = Failure("fallback error")

\* C8: once all pending revert timers have fired, a copy button shows its
\* original label again and no longer carries the class 'copied', after
\* any sequence of successful clicks; the same for the copy-all button.
C8_IndicatorReverts ==
    /\ \A b \in Buttons :
        (\A i \in 1..Len(timers) : timers[i].btn # b) =>
            label[b] = OriginalLabel /\ ~copied[b]
    /\ (\A i \in 1..Len(timers) : timers[i].kind # "all") =>
            allLabel = OriginalAllLabel

\* C9: the string the copy-all handler passes to copyText is the non-empty
\* sources in the order shortText, email, message, code, the code source
\* prefixed with "Code:\n", joined with exactly "\n\n" between consecutive
\* parts.
C9_CombinedRequest ==
    combinePassed.called =>
        LET code == IF combineSrc[4].str = <<>> THEN <<>>
                    ELSE <<"C", "o", "d", "e", ":", "\n">> \o combineSrc[4].str
            all == <<combineSrc[1].str, combineSrc[2].str, combineSrc[3].str, code>>
            kept == SelectSeq(all, LAMBDA x : x # <<>>)
            nn == <<"\n", "\n">>
            expected ==
                CASE Len(kept) = 1 -> kept[1]
                  [] Len(kept) = 2 -> kept[1] \o nn \o kept[2]
                  [] Len(kept) = 3 -> kept[1] \o nn \o kept[2] \o nn \o kept[3]
                  [] OTHER -> kept[1] \o nn \o kept[2] \o nn \o kept[3] \o nn \o kept[4]
        IN  /\ kept # <<>>
            /\ combinePassed.text = Str(expected)

C9_Witness ==
    /\ combinePassed.called
    /\ combineSrc[1].str = <<>>
    /\ combineSrc[3].str = <<>>
    /\ combineSrc[2].str # <<>>
    /\ combineSrc[4].str # <<>>

\* C10: readTextFromTarget never raises and returns the empty string for
\* no element, the live value of an input or textarea, and otherwise the
\* element's rendered text, or the empty string when that is unavailable.
C10_ReadNeverRaises ==
    readRes.done =>
        LET q == IF readArg.kind = "selector"
                 THEN (IF readArg.sel.valid /\ readArg.sel.name \in DOMAIN ReadDom
                       THEN ReadDom[readArg.sel.name] ELSE NoElement)
                 ELSE IF readArg.kind = "element" THEN readArg.el
                 ELSE NoElement
        IN  /\ ~readRes.threw
            /\ q = NoElement => readRes.val = Str(<<>>)
            /\ (q # NoElement /\ q.tagName \in {"INPUT", "TEXTAREA"}) =>
                    readRes.val = q.value
            /\ (q # NoElement /\ q.tagName \notin {"INPUT", "TEXTAREA"}) =>
                    /\ readRes.val \in {q.textContent, q.innerText, Str(<<>>)}
                    /\ readRes.val.kind = "string"
                    /\ q.textContent.str # <<>> => readRes.val = q.textContent
                    /\ readRes.val = Str(<<>>) => q.innerText.str = <<>>

\* C11: two copyText calls with the same string under the same capability
\* availability and the same primary and fallback behaviour end in the
\* same kind of outcome, whatever the first call left behind (a leaked
\* textarea, a changed clipboard).
C11_SameOutcomeKind ==
    Len(twice.results) = 2 => twice.results[1].ok = twice.results[2].ok

C11_Witness ==
    /\ Len(twice.results) = 2
    /\ body # {}
    /\ ~twice.results[2].ok

PendingIds == {pending[i].id : i \in 1..Len(pending)}
ReturnedIds == {returned[i].id : i \in 1..Len(returned)}

\* the paths of the state machine, with its two short cuts: no primary
\* attempt when the capability is absent, none at all without input
MachinePaths ==
    {<<"Start", "PrimaryAttempt", "Success">>,
     <<"Start", "PrimaryAttempt", "FallbackAttempt", "Success">>,
     <<"Start", "PrimaryAttempt", "FallbackAttempt", "Failure">>,
     <<"Start", "FallbackAttempt", "Success">>,
     <<"Start", "FallbackAttempt", "Failure">>,
     <<"Start", "Failure">>}

C12_PathsFollowed ==
    /\ \A r \in Completed :
        /\ r.trace \in MachinePaths
        /\ (\E k \in 1..Len(r.trace) : r.trace[k] = "FallbackAttempt")
              => r.primary \in {"absent", "threw", "rejected"}
        /\ (\E k \in 1..Len(r.trace) : r.trace[k] = "PrimaryAttempt")
              <=> r.primary \in {"resolved", "threw", "rejected"}
    /\ \A i \in 1..Len(pending) : pending[i].trace = <<"Start", "PrimaryAttempt">>
    /\ PendingIds \cap ReturnedIds = {}
    /\ Cardinality(PendingIds) = Len(pending)
    /\ Cardinality(ReturnedIds) = Len(returned)

C12_TerminalIsFinal ==
    \A id \in 1..nextId :
        id \notin PendingIds =>
            /\ id \notin PendingIds'
            /\ \A k \in 1..Len(returned') :
                  returned'[k].id = id => \E j \in 1..Len(returned) : returned[j] = returned'[k]

\* C12: within one copyText call the primary write is attempted at most
\* once, the fallback at most once and only after the primary was absent or
\* failed, never the primary after the fallback, and a call that reached
\* Success or Failure takes no further step.
C12_StateMachine == []C12_PathsFollowed /\ [][C12_TerminalIsFinal]_vars

C12_Witness ==
    \E r \in Completed :
        r.trace = <<"Start", "PrimaryAttempt", "FallbackAttempt", "Failure">>

\* a call is suspended only at a started write: never without the
\* capability, never with a fallback attempt behind it, never with its
\* temporary element in the document, never already returned
C13_WhileSuspended ==
    /\ ~navClipboard => pending = <<>>
    /\ \A i \in 1..Len(pending) :
        /\ pending[i].id \notin body
        /\ pending[i].id \notin ReturnedIds
        /\ \A k \in 1..Len(pending[i].trace) : pending[i].trace[k] # "FallbackAttempt"

\* a started call is suspended or has returned by the end of the step that
\* started it (returned, when the capability is absent), and a suspended
\* call has returned by the end of the step in which it stops being suspended
C13_SettleCompletes ==
    /\ nextId' # nextId =>
        /\ nextId' \in PendingIds' \cup ReturnedIds'
        /\ ~navClipboard => nextId' \in ReturnedIds'
    /\ \A id \in PendingIds : id \notin PendingIds' => id \in ReturnedIds'

\* a label is changed, or an outcome reported in the status line, only by
\* the continuation of a call that has returned, or by a revert timer
C13_NoUpdateWhileSuspended ==
    (\/ label' # label
     \/ copied' # copied
     \/ allLabel' # allLabel
     \/ status'.text \notin {status.text, <<"Nothing to copy.">>,
                              <<"No target found to copy.">>})
    => \/ /\ returned # <<>>
          /\ returned' = Tail(returned)
          /\ Head(returned).id \notin PendingIds
          /\ pending' = pending
       \/ /\ timers # <<>>
          /\ timers' = Tail(timers)
          /\ status' = status

\* C13: a copyText call returns at once when the primary capability is
\* absent and returns once its write resolves or rejects; for as long as
\* the write has not settled the call has not returned, has attempted no
\* fallback, has no temporary element in the document, and its handler has
\* updated neither the status line nor a label.
C13_Terminates ==
    /\ []C13_WhileSuspended
    /\ [][C13_SettleCompletes /\ C13_NoUpdateWhileSuspended]_vars
    /\ \A id \in 1..MaxCalls : (id \in PendingIds) ~> (id \in ReturnedIds)

\* a call still suspended while a call started after it has returned
C13_Witness ==
    \E i \in 1..Len(pending) : \E r \in Completed :
        /\ r.id > pending[i].id
        /\ status = showStatus(<<"">>, TRUE)

\* between steps the document holds no textarea of a suspended call, of a
\* call that never ran the fallback, or of a call whose fallback ran to its
\* return statement
C14_NoElementBetweenSteps ==
    /\ body \subseteq 1..nextId
    /\ \A i \in 1..Len(pending) : pending[i].id \notin body
    /\ \A r \in Completed :
        /\ r.env.throwAt \in {"none", "notrun"} => r.id \notin body
        /\ r.env.throwAt = "none" =>
              /\ \E k \in 1..Len(r.trace) : r.trace[k] = "FallbackAttempt"
              /\ r.inserted
              /\ r.execCalled
              /\ ~r.docChanged

\* a step that suspends a call touches neither document nor clipboard, and
\* a textarea that a step leaves in the document belongs to the one call
\* that returns in that step, whose fallback raised
C14_FallbackInOneStep ==
    /\ PendingIds' \ PendingIds # {} => body' = body /\ clipboard' = clipboard
    /\ \A id \in body' \ body :
        /\ Len(returned') = Len(returned) + 1
        /\ returned'[Len(returned')].id = id
        /\ returned'[Len(returned')].env.throwAt \notin {"none", "notrun"}
    /\ body \subseteq body'

\* C14: a copyText call yields only at the primary write and its fallback
\* runs from createElement to return within one step, so overlapping calls
\* never interleave inside a fallback, and between steps the document holds
\* no temporary element of a call whose fallback ran without raising.
C14_OnlyPrimaryYields ==
    []C14_NoElementBetweenSteps /\ [][C14_FallbackInOneStep]_vars

\* two overlapping calls: one has run its whole fallback after a rejected
\* write while the other is still suspended
C14_Witness ==
    /\ pending # <<>>
    /\ body = {}
    /\ \E r \in Completed :
        /\ r.primary = "rejected"
        /\ r.env.throwAt = "none"
        /\ r.inserted
        /\ \E i \in 1..Len(pending) : pending[i].id < r.id

\* the request a handler would build from source texts src
RequestFrom(caller, src) ==
    IF caller = "all"
    THEN Combined(Str(src[1]), Str(src[2]), Str(src[3]), Str(src[4]))
    ELSE Str(src[1])

\* C15: the text of a handler's copyText call is the text its source held
\* when the handler ran, also after the source was edited while the write
\* was pending or before the fallback ran; when the call returns Success,
\* by either path, the clipboard holds exactly that text.
C15_CopiesTextAtClick ==
    /\ \A i \in 1..Len(pending) :
        pending[i].caller # "direct" =>
            pending[i].text = RequestFrom(pending[i].caller, pending[i].at)
    /\ \A r \in Completed :
        r.caller # "direct" =>
            /\ r.text = RequestFrom(r.caller, r.at)
            /\ r.res.ok => clipboard = r.text.str

\* the field was edited while the write was pending, the write was then
\* rejected and the fallback copied the text read at the click
C15_Witness ==
    \E r \in Completed :
        /\ r.caller = "copyShort"
        /\ r.primary = "rejected"
        /\ r.res.ok
        /\ fields["#shortText"] # r.at[1]
        /\ clipboard = r.at[1]

\* every copyText call made by a handler was given a non-empty string
C16_HandlersPassText ==
    /\ \A i \in 1..Len(pending) :
        pending[i].caller # "direct" =>
            pending[i].text.kind = "string" /\ pending[i].text.str # <<>>
    /\ \A r \in Completed :
        r.caller # "direct" => r.text.kind = "string" /\ r.text.str # <<>>

\* a click with nothing to copy reports it and starts no call
C16_EmptyClickStops ==
    /\ (\E b \in Buttons :
            /\ CopyTarget(b).kind = "string"
            /\ fields[CopyTarget(b).sel.name] = <<>>
            /\ ClickCopy(b))
        \/ ((\A f \in FieldIds : fields[f] = <<>>) /\ ClickCopyAll)
       => /\ status' = [text |-> <<"Nothing to copy.">>, color |-> "#ffbaba"]
          /\ UNCHANGED <<clipboard, body, label, copied, allLabel, timers,
                         nextId, pending, returned>>

\* a returned call's handler is the next thing to run; it reports that
\* call's outcome and the call is then gone for good
C16_OneStatusPerCall ==
    returned # <<>> =>
        LET r == Head(returned) IN
        /\ returned' = Tail(returned)
        /\ r.id \notin PendingIds' \cup ReturnedIds'
        /\ r.caller \in Buttons /\ r.res.ok =>
              status' = [text |-> <<"Copied to clipboard.">>, color |-> ""]
        /\ r.caller = "all" /\ r.res.ok =>
              status' = [text |-> <<"All fields copied to clipboard.">>, color |-> ""]
        /\ r.caller # "direct" /\ ~r.res.ok =>
              /\ status'.color = "#ffbaba"
              /\ status'.text = <<"Copy failed: ",
                                  IF r.res.message = "" THEN "unknown error"
                                  ELSE r.res.message>>

\* C16: a click with an empty source (per-button) or with all four sources
\* empty (copy-all) sets the status to 'Nothing to copy.' and changes
\* neither clipboard, document nor labels and starts no copyText call; so
\* no handler passes copyText an empty or absent text, and each handler's
\* call is followed by exactly one status update that reports its outcome.
C16_NothingToCopyStops ==
    /\ []C16_HandlersPassText
    /\ [][C16_EmptyClickStops /\ C16_OneStatusPerCall]_vars

\* after a successful copy the fields were emptied and a click reported
\* that there is nothing to copy
C16_Witness ==
    /\ status = [text |-> <<"Nothing to copy.">>, color |-> "#ffbaba"]
    /\ \A f \in FieldIds : fields[f] = <<>>
    /\ clipboard # <<>>
    /\ nextId >= 1
    /\ pending = <<>>
    /\ returned = <<>>

====
